---- MODULE Spec2Model ----
(***************************************************************************)
(* A model of the Converse-With-Your-Data backend:                         *)
(*   backend/visualization.py  suggest_visualizations,                     *)
(*                             recognize_visualization_request,            *)
(*                             visualize_data                              *)
(*   backend/main.py           the ingest, query and visualize endpoints   *)
(*                             and the session dictionaries                *)
(*   backend/data_ingestion.py ingest_data, get_schema                     *)
(*   backend/llm_integration.py llm_to_sql                                 *)
(*                                                                         *)
(* Three specifications share the operators:                               *)
(*   SpecChart      visualize_data applied to dataframes                   *)
(*   SpecValidator  the two parsers of the text generator's reply          *)
(*   Spec           the session driven by ingest/query/visualize requests  *)
(***************************************************************************)
EXTENDS Integers, Sequences, FiniteSets, TLC

VARIABLES
    \* SpecChart: one call of visualize_data
    df,          \* the dataframe argument
    vis_types,   \* the vis_types argument
    raising,     \* the kinds whose plotly construction raises on this call
    result,      \* what the call did: NotCalled, a raise or a return
    \* SpecValidator: one response of the text generator and its parse
    llm_reply,   \* the response: a failure, a null content or a text
    parsed,      \* which parser ran on it and what it returned
    \* Spec: the dictionaries of main.py, each holding at most the entry of
    \* current_session_id: <<>> when the key is absent, <<value>> when present
    database_connections,
    database_schemas,
    full_dataset_dfs,
    last_query_results,
    generated_plotly_figures,
    open_connections,   \* connections duckdb.connect made and close() has not closed
    requests,           \* ingest requests received so far
    http_response       \* the response to the last request

chartVars == <<df, vis_types, raising, result>>
validatorVars == <<llm_reply, parsed>>
sessionVars == <<database_connections, database_schemas, full_dataset_dfs,
                 last_query_results, generated_plotly_figures, open_connections,
                 requests, http_response>>
vars == <<chartVars, validatorVars, sessionVars>>

(***************************************************************************)
(* Bounds of the model.                                                    *)
(***************************************************************************)
MaxCols == 3      \* columns of a generated dataframe
MaxReq == 3       \* entries of a vis_types list
MaxPieces == 5    \* comma-separated pieces of a reply of the text generator
MaxIngests == 2   \* ingest requests of a run
MaxFragments == 2 \* comma-separated fragments of a visualize request

(***************************************************************************)
(* visualization.py:27                                                     *)
(***************************************************************************)
supported_plot_types ==
    <<"BAR_CHART", "LINE_CHART", "SCATTER_PLOT", "HISTOGRAM", "BOX_PLOT", "PIE_CHART">>

Range(s) == {s[i] : i \in 1..Len(s)}

\* `x in supported_plot_types`
InSupported(x) == \E i \in 1..Len(supported_plot_types) : supported_plot_types[i] = x

(***************************************************************************)
(* Dataframes.  A dataframe is [nrows, cols]; a column is what the code    *)
(* can observe of it:                                                      *)
(*   dtype   the pandas dtype class select_dtypes tests                    *)
(*   groups  the number of groups groupby(col) / value_counts() return,    *)
(*           i.e. the number of distinct non-null values                   *)
(*   parses  whether pd.to_datetime(col, errors='coerce') leaves at least  *)
(*           one non-null value                                            *)
(* A column is named by its position; labels are the non-empty strings     *)
(* read_csv produces, so a label is always truthy.                         *)
(***************************************************************************)
Dtypes == {"object", "category", "number", "datetime", "bool"}

GroupCounts == {1, 2, 4, 10, 11, 15}
RowCounts == {0, 50}

Column(d, g, p) == [dtype |-> d, groups |-> g, parses |-> p]

\* The columns a dataframe of n rows can hold.
ColumnChoices(n) ==
    IF n = 0
    THEN {Column(d, 0, FALSE) : d \in Dtypes}
    ELSE {Column("object", g, FALSE) : g \in {g \in GroupCounts : g <= n}}
         \cup {Column("object", 0, FALSE)}      \* a text column of nulls only
         \cup {Column("object", n, TRUE)}       \* date strings
         \cup {Column("category", g, FALSE) : g \in {2, 11}}
         \cup {Column("number", n, FALSE), Column("datetime", n, FALSE),
               Column("bool", 2, FALSE)}

SeqsUpTo(S, n) == UNION {[1..k -> S] : k \in 0..n}

\* df.empty: any axis of length 0
df_emptyColsOnly(d) == Len(d.cols) = 0
df_empty(d) == d.nrows = 0 \/ Len(d.cols) = 0

\* df.select_dtypes(include=...).columns, as the positions of the columns
select_dtypes(d, include) ==
    SelectSeq([i \in 1..Len(d.cols) |-> i], LAMBDA i : d.cols[i].dtype \in include)

(***************************************************************************)
(* The title f"{vis_name} - {vis_type.replace('_', ' ').title()}".         *)
(***************************************************************************)
TitleCase(vis_type) ==
    CASE vis_type = "BAR_CHART" -> "Bar Chart"
      [] vis_type = "LINE_CHART" -> "Line Chart"
      [] vis_type = "SCATTER_PLOT" -> "Scatter Plot"
      [] vis_type = "HISTOGRAM" -> "Histogram"
      [] vis_type = "BOX_PLOT" -> "Box Plot"
      [] vis_type = "PIE_CHART" -> "Pie Chart"

Title(vis_name, vis_type) == <<vis_name, " - ", TitleCase(vis_type)>>

\* A plotly figure: the px function, the frame it is given (df itself, df with the
\* parsed column, the grouped sums or the value counts) and its column arguments.
\* x or y is 0 when the argument is not a column of df: not passed, or the 'count'
\* column of the value counts.
Fig(px, data, x, y, title) == [px |-> px, data |-> data, x |-> x, y |-> y, title |-> title]

(***************************************************************************)
(* The branches of the loop body of visualize_data.  Each yields <<>> when *)
(* fig stays None and <<fig>> when a px function is called.                *)
(***************************************************************************)
BarChart(d, title) ==
    LET categorical_cols == select_dtypes(d, {"object", "category"})
        numerical_cols == select_dtypes(d, {"number"})
    IN  IF Len(categorical_cols) >= 1 /\ Len(numerical_cols) >= 1
        THEN <<Fig("bar", "df", categorical_cols[1], numerical_cols[1], title)>>
        ELSE IF Len(categorical_cols) >= 1
        THEN <<Fig("bar", "value_counts", categorical_cols[1], 0, title)>>
        ELSE <<>>

LineChart(d, title) ==
    LET numerical_cols == select_dtypes(d, {"number"})
        date_cols == select_dtypes(d, {"datetime"})
        object_cols == select_dtypes(d, {"object"})
    IN  IF Len(date_cols) >= 1 /\ Len(numerical_cols) >= 1
        THEN <<Fig("line", "df", date_cols[1], numerical_cols[1], title)>>
        ELSE IF Len(object_cols) >= 1 /\ Len(numerical_cols) >= 1
        THEN \* only object_cols[0] is parsed
             IF d.cols[object_cols[1]].parses
             THEN <<Fig("line", "parsed", object_cols[1], numerical_cols[1], title)>>
             ELSE <<>>
        ELSE <<>>

ScatterPlot(d, title) ==
    LET numerical_cols == select_dtypes(d, {"number"})
    IN  IF Len(numerical_cols) >= 2
        THEN <<Fig("scatter", "df", numerical_cols[1], numerical_cols[2], title)>>
        ELSE <<>>

Histogram(d, title) ==
    LET numerical_cols == select_dtypes(d, {"number"})
    IN  IF Len(numerical_cols) >= 1
        THEN <<Fig("histogram", "df", numerical_cols[1], 0, title)>>
        ELSE <<>>

BoxPlot(d, title) ==
    LET categorical_cols == select_dtypes(d, {"object", "category"})
        numerical_cols == select_dtypes(d, {"number"})
    IN  IF Len(numerical_cols) >= 1 /\ Len(categorical_cols) >= 1
        THEN <<Fig("box", "df", categorical_cols[1], numerical_cols[1], title)>>
        ELSE IF Len(numerical_cols) >= 1
        THEN <<Fig("box", "df", 0, numerical_cols[1], title)>>
        ELSE <<>>

\* len(grouped_df) > 1 and len(grouped_df) <= 10
PieGuardBelowTen(n) == n > 1 /\ n < 10
PieGuard(n) == n > 1 /\ n <= 10

PieChart(d, title) ==
    LET categorical_cols == select_dtypes(d, {"object", "category"})
        numerical_cols == select_dtypes(d, {"number"})
    IN  IF Len(categorical_cols) >= 1 /\ Len(numerical_cols) >= 1
        THEN IF PieGuard(d.cols[categorical_cols[1]].groups)
             THEN <<Fig("pie", "grouped_sum", categorical_cols[1], numerical_cols[1], title)>>
             ELSE <<>>
        ELSE IF Len(categorical_cols) >= 1
        THEN IF PieGuard(d.cols[categorical_cols[1]].groups)
             THEN <<Fig("pie", "value_counts", categorical_cols[1], 0, title)>>
             ELSE <<>>
        ELSE <<>>

\* The if/elif chain on vis_type.
Figure(d, vis_type, vis_name) ==
    LET title == Title(vis_name, vis_type)
    IN  CASE vis_type = "BAR_CHART" -> BarChart(d, title)
          [] vis_type = "LINE_CHART" -> LineChart(d, title)
          [] vis_type = "SCATTER_PLOT" -> ScatterPlot(d, title)
          [] vis_type = "HISTOGRAM" -> Histogram(d, title)
          [] vis_type = "BOX_PLOT" -> BoxPlot(d, title)
          [] vis_type = "PIE_CHART" -> PieChart(d, title)

\* The try/except around one kind: a px call that raises leaves nothing appended.
TryFigure(d, vis_type, vis_name, raises) ==
    LET fig == Figure(d, vis_type, vis_name)
    IN  IF fig # <<>> /\ vis_type \in raises THEN <<>> ELSE fig

\* for vis_type in valid_vis_types: ... generated_plotly_visualizations.append(...)
RECURSIVE PlotLoopAborting(_, _, _, _, _)
PlotLoopAborting(d, valid, vis_name, raises, acc) ==
    IF valid = <<>>
    THEN acc
    ELSE LET fig == TryFigure(d, Head(valid), vis_name, raises)
         IN  IF fig = <<>>
             THEN acc
             ELSE PlotLoopAborting(d, Tail(valid), vis_name, raises, acc \o fig)

RECURSIVE PlotLoop(_, _, _, _, _)
PlotLoop(d, valid, vis_name, raises, acc) ==
    IF valid = <<>>
    THEN acc
    ELSE PlotLoop(d, Tail(valid), vis_name, raises,
                  acc \o TryFigure(d, Head(valid), vis_name, raises))

\* The outcomes of a call.
Raise(error, classified) == [status |-> "raise", error |-> error, charts |-> <<>>,
                             classified |-> classified]
Return(charts, classified) == [status |-> "return", error |-> "", charts |-> charts,
                               classified |-> classified]
NotCalled == [status |-> "idle", error |-> "", charts |-> <<>>, classified |-> 0]

EmptyDataFrame == "ERROR---DataFrame is empty."
NoPlots == "ERROR---No plots could be generated from the provided data and visualization types."

\* if not generated_plotly_visualizations: raise ValueError(...); return ...
FinishReturning(charts, classified) == Return(charts, classified)
Finish(charts, classified) ==
    IF charts = <<>> THEN Raise(NoPlots, classified) ELSE Return(charts, classified)

\* visualize_data(df, vis_types, vis_name).  classified counts the loop iterations,
\* each of which classifies the columns with select_dtypes.
visualize_data(d, vt, vis_name, raises) ==
    IF df_empty(d)
    THEN Raise(EmptyDataFrame, 0)
    ELSE LET valid_vis_types == SelectSeq(vt, InSupported)
         IN  IF valid_vis_types = <<>>
             THEN Return(<<>>, 0)
             ELSE Finish(PlotLoop(d, valid_vis_types, vis_name, raises, <<>>),
                         Len(valid_vis_types))

(***************************************************************************)
(* Text.  A string is a sequence of pieces of text: the characters the     *)
(* parsers look for (comma, blank, single and double quote) and words, a   *)
(* word being a run of other characters.  The words are chosen so that no  *)
(* word is a concatenation of others: two strings are equal exactly when   *)
(* their sequences are.                                                    *)
(***************************************************************************)
Words == {"BAR", "LINE", "PIE", "_CHART", "SCATTER", "BOX", "_PLOT", "HISTO", "GRAM",
          "bogus", "NONE", "none"}

\* The characters of a kind name.
Chars(k) ==
    CASE k = "BAR_CHART" -> <<"BAR", "_CHART">>
      [] k = "LINE_CHART" -> <<"LINE", "_CHART">>
      [] k = "SCATTER_PLOT" -> <<"SCATTER", "_PLOT">>
      [] k = "HISTOGRAM" -> <<"HISTO", "GRAM">>
      [] k = "BOX_PLOT" -> <<"BOX", "_PLOT">>
      [] k = "PIE_CHART" -> <<"PIE", "_CHART">>

\* str.strip()
RECURSIVE lstrip(_)
lstrip(s) == IF s # <<>> /\ Head(s) = " " THEN lstrip(Tail(s)) ELSE s

RECURSIVE rstrip(_)
rstrip(s) == IF s # <<>> /\ s[Len(s)] = " " THEN rstrip(SubSeq(s, 1, Len(s) - 1)) ELSE s

strip(s) == rstrip(lstrip(s))

\* str.split(sep): one more piece than separators, empty pieces kept
RECURSIVE split(_, _)
split(s, sep) ==
    IF \A i \in 1..Len(s) : s[i] # sep
    THEN <<s>>
    ELSE LET i == CHOOSE i \in 1..Len(s) : s[i] = sep /\ \A j \in 1..(i - 1) : s[j] # sep
         IN  <<SubSeq(s, 1, i - 1)>> \o split(SubSeq(s, i + 1, Len(s)), sep)

\* str.replace(c, ''): every occurrence goes
remove(s, c) == SelectSeq(s, LAMBDA x : x # c)

\* str.upper()
upper(s) ==
    [i \in 1..Len(s) |-> CASE s[i] = "none" -> "NONE"
                           [] s[i] = "bogus" -> "BOGUS"
                           [] OTHER -> s[i]]

\* [s.strip().replace("'", "").replace('"', '') for s in text.split(',') if s.strip()]
CleanPieces(text) ==
    LET pieces == split(text, ",")
        kept == SelectSeq(pieces, LAMBDA s : strip(s) # <<>>)
    IN  [i \in 1..Len(kept) |-> remove(remove(strip(kept[i]), "'"), "\"")]

\* `t in supported_plot_types` for a string t, and the list's element equal to it
InSupportedText(t) ==
    \E i \in 1..Len(supported_plot_types) : Chars(supported_plot_types[i]) = t

KindOf(t) ==
    supported_plot_types[CHOOSE i \in 1..Len(supported_plot_types) :
                             Chars(supported_plot_types[i]) = t]

(***************************************************************************)
(* The text generator.  client.chat.completions.create either raises or    *)
(* answers; the message content of an answer is a string or None.          *)
(***************************************************************************)
Answer(content) == [kind |-> "text", content |-> content]
Failure == [kind |-> "error", content |-> <<>>]
ConnectionFailure == [kind |-> "connection", content |-> <<>>]
NullContent == [kind |-> "null", content |-> <<>>]

\* The exception the body of a try block around the call raises, "none" if it
\* runs to its return: create raises openai.APIStatusError (an error status) or
\* openai.APIConnectionError (no answer), and None.strip() raises AttributeError.
TryBodyRaises(response) ==
    CASE response.kind = "error" -> "APIStatusError"
      [] response.kind = "connection" -> "APIConnectionError"
      [] response.kind = "null" -> "AttributeError"
      [] OTHER -> "none"

\* except openai.APIStatusError ... except Exception: the classes the two
\* clauses catch, the second one every class derived from Exception.
ExceptStatusErrorOnly(exc) == exc = "APIStatusError"
ExceptionClasses == {"APIStatusError", "APIConnectionError", "AttributeError"}
ExceptClauses(exc) == exc = "APIStatusError" \/ exc \in ExceptionClasses

\* The exception that leaves a function whose body is one such try statement.
Escapes(response) ==
    IF TryBodyRaises(response) # "none" /\ ~ExceptClauses(TryBodyRaises(response))
    THEN TryBodyRaises(response)
    ELSE "none"

(***************************************************************************)
(* suggest_visualizations(schema_information), given the text generator's  *)
(* response.                                                               *)
(***************************************************************************)
Suggestion(t) == [type |-> t, reason |-> "LLM-suggested based on schema."]

\* for t in suggested_types: if t in supported_plot_types and t not in seen_types
RECURSIVE FinalSuggestions(_, _, _)
FinalSuggestions(suggested_types, seen_types, final_suggestions) ==
    IF suggested_types = <<>>
    THEN final_suggestions
    ELSE LET t == Head(suggested_types)
         IN  IF InSupportedText(t) /\ KindOf(t) \notin seen_types
             THEN FinalSuggestions(Tail(suggested_types), seen_types \cup {KindOf(t)},
                                   Append(final_suggestions, Suggestion(KindOf(t))))
             ELSE FinalSuggestions(Tail(suggested_types), seen_types, final_suggestions)

suggest_visualizations(schema_information, response) ==
    IF schema_information.table_name = "" \/ schema_information.columns = <<>>
    THEN <<>>
    ELSE IF TryBodyRaises(response) # "none"
    THEN <<>>        \* the return of the except clause that catches it
    ELSE FinalSuggestions(CleanPieces(strip(response.content)), {}, <<>>)

\* The exception suggest_visualizations raises to its caller, "none" if it returns.
suggest_visualizations_raises(schema_information, response) ==
    IF schema_information.table_name = "" \/ schema_information.columns = <<>>
    THEN "none"
    ELSE Escapes(response)

(***************************************************************************)
(* recognize_visualization_request(visualization_request), given the text  *)
(* generator's response.                                                   *)
(***************************************************************************)
recognize_visualization_request(response) ==
    IF TryBodyRaises(response) # "none"
    THEN <<>>
    ELSE LET llm_recognized_visualization == strip(response.content)
         IN  IF upper(llm_recognized_visualization) = <<"NONE">>
             THEN <<>>
             ELSE LET recognized_types == CleanPieces(llm_recognized_visualization)
                      accepted == SelectSeq(recognized_types, InSupportedText)
                  IN  [i \in 1..Len(accepted) |-> KindOf(accepted[i])]

\* The exception recognize_visualization_request raises to its caller.
recognize_visualization_request_raises(response) == Escapes(response)

(***************************************************************************)
(* SpecChart: visualize_data is called on a dataframe, with one requested  *)
(* entry on any dataframe and with a list of entries on the scenario       *)
(* tables.                                                                 *)
(***************************************************************************)
VisName == "sales"

\* What a caller can put in vis_types: the six kinds and a name outside the taxonomy.
KindTokens == Range(supported_plot_types) \cup {"bogus"}

TextCol(g) == Column("object", g, FALSE)
DateTextCol(n) == Column("object", n, TRUE)
NumCol(n) == Column("number", n, FALSE)

\* The 50-row table of a text category, a number and an ISO date string.
CategoryTable(g) == [nrows |-> 50, cols |-> <<TextCol(g), NumCol(50), DateTextCol(50)>>]

ScenarioTables ==
    {CategoryTable(4), CategoryTable(15),
     [nrows |-> 50, cols |-> <<DateTextCol(50), NumCol(50), TextCol(4)>>],
     [nrows |-> 50, cols |-> <<NumCol(50), NumCol(50)>>],
     [nrows |-> 50, cols |-> <<Column("bool", 2, FALSE)>>],
     [nrows |-> 0, cols |-> <<Column("object", 0, FALSE), Column("number", 0, FALSE)>>]}

NotParsed == [fn |-> "none", schema_complete |-> TRUE, value |-> <<>>, raised |-> "none"]

ChartIdle ==
    /\ df = [nrows |-> 0, cols |-> <<>>]
    /\ vis_types = <<>>
    /\ raising = {}
    /\ result = NotCalled

ValidatorIdle ==
    /\ llm_reply = Failure
    /\ parsed = NotParsed

NoResponse == [endpoint |-> "none", status |-> 0]

SessionIdle ==
    /\ database_connections = <<>>
    /\ database_schemas = <<>>
    /\ full_dataset_dfs = <<>>
    /\ last_query_results = <<>>
    /\ generated_plotly_figures = <<>>
    /\ open_connections = {}
    /\ requests = 0
    /\ http_response = NoResponse

InitChart ==
    /\ df \in {[nrows |-> n, cols |-> <<>>] : n \in RowCounts}
    /\ vis_types = <<>>
    /\ raising = {}
    /\ result = NotCalled
    /\ ValidatorIdle
    /\ SessionIdle

\* visualize_data is a function of its arguments: one call per dataframe is explored.
Call(vt, r) ==
    /\ vis_types' = vt
    /\ raising' = r
    /\ result' = visualize_data(df, vt, VisName, r)
    /\ UNCHANGED <<df, validatorVars, sessionVars>>

\* The dataframe under test grows by one column.
AddColumn ==
    /\ result = NotCalled
    /\ Len(df.cols) < MaxCols
    /\ \E c \in ColumnChoices(df.nrows) : df' = [df EXCEPT !.cols = Append(@, c)]
    /\ UNCHANGED <<vis_types, raising, result, validatorVars, sessionVars>>

\* One requested entry, whose construction raises or not.
VisualizeOne ==
    /\ result = NotCalled
    /\ \E k \in KindTokens : \E r \in {{}, {k} \cap Range(supported_plot_types)} :
           Call(<<k>>, r)

\* A list of entries, at most one kind of which raises.
VisualizeBatch ==
    /\ result = NotCalled
    /\ df \in ScenarioTables
    /\ \E vt \in SeqsUpTo(KindTokens, MaxReq) :
       \E r \in {{}} \cup {{k} : k \in Range(vt) \cap Range(supported_plot_types)} :
           Call(vt, r)

NextChart == AddColumn \/ VisualizeOne \/ VisualizeBatch

SpecChart == InitChart /\ [][NextChart]_vars

(***************************************************************************)
(* SpecValidator: the text generator answers piece by piece, or fails, and *)
(* one of the two parsers runs on the response.                            *)
(***************************************************************************)
\* What the text generator may put between two commas: a kind as it is (LINE_CHART
\* comes quoted and after a blank), a word outside the taxonomy, the sentinel, a blank.
ReplyPieces ==
    {Chars(k) : k \in Range(supported_plot_types) \ {"LINE_CHART"}}
    \cup {<<" ", "'", "LINE", "_CHART", "'">>,
          <<" ", "bogus">>,
          <<"NONE">>,
          <<" ">>}

NumPieces(text) == Len(split(text, ","))

\* The schemas suggest_visualizations is given: one of get_schema, and one without columns.
SchemaSample ==
    [table_name |-> "sales",
     columns |-> <<[column_name |-> 1, data_type |-> "VARCHAR"],
                   [column_name |-> 2, data_type |-> "DOUBLE"]>>]
IncompleteSchema == [table_name |-> "sales", columns |-> <<>>]

InitValidator ==
    /\ llm_reply \in {Failure, ConnectionFailure, NullContent}
                     \cup {Answer(p) : p \in ReplyPieces}
    /\ parsed = NotParsed
    /\ ChartIdle
    /\ SessionIdle

\* The text generator's answer grows by a comma and a piece.
EmitPiece ==
    /\ parsed = NotParsed
    /\ llm_reply.kind = "text"
    /\ NumPieces(llm_reply.content) < MaxPieces
    /\ \E p \in ReplyPieces : llm_reply' = Answer(llm_reply.content \o <<",">> \o p)
    /\ UNCHANGED <<parsed, chartVars, sessionVars>>

Suggest ==
    /\ parsed = NotParsed
    /\ parsed' = [fn |-> "suggest", schema_complete |-> TRUE,
                  value |-> suggest_visualizations(SchemaSample, llm_reply),
                  raised |-> suggest_visualizations_raises(SchemaSample, llm_reply)]
    /\ UNCHANGED <<llm_reply, chartVars, sessionVars>>

\* With an incomplete schema the function returns before the text generator is
\* called: explored on the one-piece responses only.
SuggestIncomplete ==
    /\ parsed = NotParsed
    /\ NumPieces(llm_reply.content) = 1
    /\ parsed' = [fn |-> "suggest", schema_complete |-> FALSE,
                  value |-> suggest_visualizations(IncompleteSchema, llm_reply),
                  raised |-> suggest_visualizations_raises(IncompleteSchema, llm_reply)]
    /\ UNCHANGED <<llm_reply, chartVars, sessionVars>>

Recognize ==
    /\ parsed = NotParsed
    /\ parsed' = [fn |-> "recognize", schema_complete |-> TRUE,
                  value |-> recognize_visualization_request(llm_reply),
                  raised |-> recognize_visualization_request_raises(llm_reply)]
    /\ UNCHANGED <<llm_reply, chartVars, sessionVars>>

NextValidator == EmitPiece \/ Suggest \/ SuggestIncomplete \/ Recognize

SpecValidator == InitValidator /\ [][NextValidator]_vars

(***************************************************************************)
(* data_ingestion.py and llm_integration.py.                               *)
(***************************************************************************)
\* The DuckDB type of a registered pandas column.
DuckDBType(dtype) ==
    CASE dtype = "object" -> "VARCHAR"
      [] dtype = "category" -> "VARCHAR"
      [] dtype = "number" -> "DOUBLE"
      [] dtype = "datetime" -> "TIMESTAMP"
      [] dtype = "bool" -> "BOOLEAN"

\* get_schema(conn, table_name), conn holding the table `frame`
get_schema(frame, table_name) ==
    [table_name |-> table_name,
     columns |-> [i \in 1..Len(frame.cols) |->
                     [column_name |-> i, data_type |-> DuckDBType(frame.cols[i].dtype)]]]

\* llm_to_sql: the schema_string it puts in the prompt.  The columns are read
\* under the key "column_names", with [] as the default.
SqlSchemaString(schema_information) ==
    LET columns == IF "column_names" \in DOMAIN schema_information
                   THEN schema_information.column_names
                   ELSE <<>>
    IN  [table |-> schema_information.table_name,
         columns |-> [i \in 1..Len(columns) |->
                         <<columns[i].column_name, columns[i].data_type>>]]

\* llm_to_sql(schema_information, unstructured_language_query): <<>> stands for None
\* and <<sql>> for the stripped content.
llm_to_sql(schema_information, sql_response) ==
    IF sql_response.kind # "text" THEN <<>> ELSE <<strip(sql_response.content)>>

(***************************************************************************)
(* main.py: the three endpoints.  Every action is one request, handled     *)
(* from its first line to its response.                                    *)
(***************************************************************************)
TableName == "sales"

\* The tables an uploaded CSV file can hold.
Uploads ==
    {CategoryTable(4),
     [nrows |-> 50, cols |-> <<NumCol(50), NumCol(50)>>],
     [nrows |-> 0, cols |-> <<Column("object", 0, FALSE), Column("number", 0, FALSE)>>]}

\* Where an ingest request fails, if it does:
\*   start_line  data_start_line < 1                              (400)
\*   save        writing the temporary file raises                (500)
\*   ingest      ingest_data returns None                         (500)
\*   schema      get_schema raises                                (500)
\*   snapshot    conn.execute("SELECT * FROM ...") raises         (500)
\*   serialize   json.dumps of the preview raises                 (500)
IngestFaults == {"none", "start_line", "save", "ingest", "schema", "snapshot", "serialize"}

\* What the text generator answers to a prompt of the endpoints.
SuggestReplies ==
    {Failure, ConnectionFailure, NullContent,
     Answer(Chars("HISTOGRAM") \o <<",">> \o Chars("BAR_CHART"))}

RecognizeReplies ==
    {Failure, ConnectionFailure,
     Answer(Chars("BAR_CHART") \o <<",", " ">> \o Chars("PIE_CHART"))}

\* What the charting and the serialization of a visualize request do: nothing
\* raises, px.bar raises, or json.dumps of the figures raises.
PlotFaults == {"none", "bar", "dumps"}

SqlReplies ==
    {Failure, ConnectionFailure, NullContent, Answer(<<" ">>), Answer(<<" ", "SELECT">>)}

\* How conn.execute(generated_sql).fetchdf() ends: with a dataframe, whose rows
\* JSONResponse can serialize or not, or raising duckdb.ParserException, another
\* duckdb.Error, or another exception.  The message of a DuckDB exception is
\* DuckDB's: it quotes the statement or it does not.
QueryResults ==
    {[nrows |-> 0, cols |-> <<Column("number", 0, FALSE)>>],
     [nrows |-> 50, cols |-> <<TextCol(4), NumCol(50)>>]}

ExecOutcomes ==
    {[kind |-> "rows", frame |-> f, serializable |-> b] : f \in QueryResults, b \in BOOLEAN}
    \cup {[kind |-> k, quotes_statement |-> b] :
              k \in {"parser_error", "duckdb_error"}, b \in BOOLEAN}
    \cup {[kind |-> "exception", quotes_statement |-> FALSE]}

\* del d[current_session_id]
KeepEntry(entry) == entry
DeleteEntry(entry) == <<>>

\* No statement closes a connection that ingest_data returned (conn.close()
\* follows `schema is None` only, and get_schema returns a dict or raises): a
\* connection that database_connections holds no longer, or never held, is
\* closed when the interpreter finalizes the object, which it has done by the
\* end of the request or has not.
StillOpen(opened, referenced, finalized) ==
    IF finalized THEN opened \cap referenced ELSE opened

\* The response of an ingest request, with what the request was: its number,
\* the table of its file, where it failed, the text generator's answer to
\* suggest_visualizations ("not_called" when the request ended before the call),
\* and whether the session held a query result.
IngestResponse(status, n, upload, fault, suggest_reply, suggestions, prior_query) ==
    [endpoint |-> "ingest", status |-> status, ingest |-> n, upload |-> upload,
     fault |-> fault, suggest_reply |-> suggest_reply,
     initial_suggestions |-> suggestions, prior_query |-> prior_query]

\* POST /ingestion_suggestion/
Ingest ==
    /\ requests < MaxIngests
    /\ \E upload \in Uploads, fault \in IngestFaults :
       \E reply \in IF fault \in {"none", "serialize"} THEN SuggestReplies ELSE {Failure} :
       \E finalized \in BOOLEAN :
          LET n == requests + 1
              schema == get_schema(upload, TableName)
              reached(faults) == fault \notin faults
              \* the steps the request gets through, in the order of the code
              connected == reached({"start_line", "save", "ingest"})
              stored == connected /\ reached({"schema"})
              snapshot == stored /\ reached({"snapshot"})
              prior == last_query_results # <<>>
              suggest_reply == IF snapshot THEN reply.kind ELSE "not_called"
              suggest_raised == snapshot /\ suggest_visualizations_raises(schema, reply) # "none"
          IN  /\ requests' = n
              /\ open_connections' =
                     StillOpen(IF connected THEN open_connections \cup {n}
                                            ELSE open_connections,
                               IF stored THEN {n} ELSE Range(database_connections),
                               finalized)
              /\ database_connections' = IF stored THEN <<n>> ELSE database_connections
              /\ database_schemas' = IF stored THEN <<[ingest |-> n, schema |-> schema]>>
                                               ELSE database_schemas
              /\ full_dataset_dfs' = IF snapshot THEN <<[ingest |-> n, frame |-> upload]>>
                                                 ELSE full_dataset_dfs
              /\ last_query_results' = IF snapshot THEN DeleteEntry(last_query_results)
                                                   ELSE last_query_results
              /\ generated_plotly_figures' =
                     IF snapshot THEN DeleteEntry(generated_plotly_figures)
                                 ELSE generated_plotly_figures
              /\ http_response' =
                     IF fault = "none" /\ ~suggest_raised
                     THEN IngestResponse(200, n, upload, fault, suggest_reply,
                                         suggest_visualizations(schema, reply), prior)
                     ELSE IngestResponse(IF fault = "start_line" THEN 400 ELSE 500,
                                         n, upload, fault, suggest_reply, <<>>, prior)
    /\ UNCHANGED <<chartVars, validatorVars>>

\* The detail of an HTTPException of the query endpoint: its fixed text and,
\* where the text has {e} in it, the message of the exception.
NoException == [class |-> "none", statement |-> <<>>]
NoDataIngested == [text |-> "No data ingested for this session", exception |-> NoException]
NoSqlGenerated == [text |-> "Failed to generate SQL query", exception |-> NoException]
ExecutionFailed(outcome, generated_sql) ==
    [text |-> CASE outcome.kind = "parser_error" -> "Invalid SQL generated: {e}"
                [] outcome.kind = "duckdb_error" -> "Error executing query: {e}"
                [] OTHER -> "Internal server error during query execution: {e}",
     exception |-> [class |-> outcome.kind,
                    statement |-> IF outcome.quotes_statement THEN generated_sql ELSE <<>>]]
NoDetail == [text |-> "", exception |-> NoException]

\* `not generated_sql`: None or the empty string
IsNone(generated_sql) == generated_sql = <<>>
Falsy(generated_sql) == generated_sql = <<>> \/ generated_sql = <<<<>>>>

NoReply == [kind |-> "not_called", content |-> <<>>]
NoPrompt == [table |-> "", columns |-> <<>>]

\* The response of a query request, with what the request did: the text
\* generator's answer (NoReply before the call) and the number of
\* calls of conn.execute, and the schema_string llm_to_sql put in its prompt.
\* sql_query and results are the keys of the content of a JSONResponse, detail
\* is the detail of an HTTPException.
QueryResponse(status, reply, executed, detail, sql, frame) ==
    [endpoint |-> "query", status |-> status, reply |-> reply, executed |-> executed,
     schema_string |-> IF reply = NoReply
                       THEN NoPrompt
                       ELSE SqlSchemaString(database_schemas[1].schema),
     detail |-> detail, sql_query |-> sql, results |-> frame]

\* POST /query/
Query ==
    /\ IF database_connections = <<>> \/ database_schemas = <<>>
       THEN /\ http_response' =
                   QueryResponse(400, NoReply, 0, NoDataIngested, <<>>, <<>>)
            /\ UNCHANGED last_query_results
       ELSE \E sql_reply \in SqlReplies :
          LET generated_sql == llm_to_sql(database_schemas[1].schema, sql_reply)
          IN  IF Falsy(generated_sql)
              THEN /\ http_response' =
                          QueryResponse(500, sql_reply, 0, NoSqlGenerated, <<>>, <<>>)
                   /\ UNCHANGED last_query_results
              ELSE \E outcome \in ExecOutcomes :
                   IF outcome.kind = "rows"
                   THEN /\ last_query_results' = <<outcome.frame>>
                        /\ http_response' =
                               IF df_empty(outcome.frame)
                               THEN QueryResponse(200, sql_reply, 1, NoDetail,
                                                  generated_sql, <<>>)
                               ELSE IF ~outcome.serializable
                               THEN QueryResponse(500, sql_reply, 1, NoDetail,
                                                  <<>>, <<>>)
                               ELSE QueryResponse(200, sql_reply, 1, NoDetail,
                                                  generated_sql, <<outcome.frame>>)
                   ELSE /\ http_response' =
                               QueryResponse(IF outcome.kind = "parser_error" THEN 400 ELSE 500,
                                             sql_reply, 1,
                                             ExecutionFailed(outcome, generated_sql),
                                             <<>>, <<>>)
                        /\ UNCHANGED last_query_results
    /\ UNCHANGED <<database_connections, database_schemas, full_dataset_dfs,
                   generated_plotly_figures, open_connections, requests,
                   chartVars, validatorVars>>

\* for p_type in requested_plot_types: normalized_plot_types.extend(recognize(p_type))
RECURSIVE NormalizedPlotTypes(_)
NormalizedPlotTypes(replies) ==
    IF replies = <<>>
    THEN <<>>
    ELSE recognize_visualization_request(Head(replies)) \o NormalizedPlotTypes(Tail(replies))

\* The loop has no try statement around it: an exception that leaves
\* recognize_visualization_request leaves the endpoint.
RecognitionRaises(replies) ==
    \E i \in 1..Len(replies) : recognize_visualization_request_raises(replies[i]) # "none"

\* The response of a visualize request, with the text generator's answer to
\* each fragment of plot_types.
VisualizeResponse(status, replies, kinds, plots) ==
    [endpoint |-> "visualize", status |-> status, replies |-> replies,
     kinds |-> kinds, plots |-> plots]

\* df_to_visualize = full_dataset_dfs[current_session_id]
df_last_query ==
    IF last_query_results # <<>> THEN last_query_results[1] ELSE full_dataset_dfs[1].frame
df_to_visualize == full_dataset_dfs[1].frame

\* POST /generate_visualization/: plot_types holds one fragment per reply of the
\* text generator.
Visualize ==
    /\ IF full_dataset_dfs = <<>> \/ database_schemas = <<>>
       THEN http_response' = VisualizeResponse(400, <<>>, <<>>, <<>>)
       ELSE IF df_empty(df_to_visualize)
       THEN http_response' = VisualizeResponse(400, <<>>, <<>>, <<>>)
       ELSE \E replies \in SeqsUpTo(RecognizeReplies, MaxFragments) :
            \E normalized_plot_types \in {NormalizedPlotTypes(replies)} :
               IF RecognitionRaises(replies)
               THEN http_response' = VisualizeResponse(500, replies, <<>>, <<>>)
               ELSE IF normalized_plot_types = <<>>
               THEN http_response' = VisualizeResponse(400, replies, <<>>, <<>>)
               ELSE \E fault \in PlotFaults :
                    \E raw_plotly_figures \in
                           {visualize_data(df_to_visualize, normalized_plot_types,
                                           database_schemas[1].schema.table_name,
                                           IF fault = "bar" THEN {"BAR_CHART"} ELSE {})} :
                       IF raw_plotly_figures.status = "raise"
                          \/ raw_plotly_figures.charts = <<>>
                       THEN http_response' =
                                VisualizeResponse(400, replies, normalized_plot_types, <<>>)
                       ELSE IF fault = "dumps"
                       THEN http_response' =
                                VisualizeResponse(500, replies, normalized_plot_types, <<>>)
                       ELSE http_response' =
                                VisualizeResponse(200, replies, normalized_plot_types,
                                                  raw_plotly_figures.charts)
    /\ UNCHANGED <<database_connections, database_schemas, full_dataset_dfs,
                   last_query_results, generated_plotly_figures, open_connections,
                   requests, chartVars, validatorVars>>

Init ==
    /\ SessionIdle
    /\ ChartIdle
    /\ ValidatorIdle

Next == Ingest \/ Query \/ Visualize

Spec == Init /\ [][Next]_vars

(***************************************************************************)
(* Vocabulary of the claims about visualize_data, stated on the arguments  *)
(* and the outcome of the call and not on the loop that computes it.       *)
(***************************************************************************)
Called == result.status # "idle"

HasData == df.nrows > 0 /\ Len(df.cols) > 0

Cols == 1..Len(df.cols)
CategoricalSet == {i \in Cols : df.cols[i].dtype \in {"object", "category"}}
NumericalSet == {i \in Cols : df.cols[i].dtype = "number"}
DatetimeSet == {i \in Cols : df.cols[i].dtype = "datetime"}
ParseableTextSet == {i \in Cols : df.cols[i].dtype = "object" /\ df.cols[i].parses}

First(S) == CHOOSE i \in S : \A j \in S : i <= j

\* The entries of vis_types that name a kind of the taxonomy.
ValidIdx == {i \in 1..Len(vis_types) : vis_types[i] \in Range(supported_plot_types)}

\* The entries that yield a chart: the rule selects columns and the construction succeeds.
KeptIdx == {i \in ValidIdx : /\ vis_types[i] \notin raising
                             /\ Figure(df, vis_types[i], VisName) # <<>>}

NthKept(j) == CHOOSE i \in KeptIdx : Cardinality({k \in KeptIdx : k <= i}) = j

\* C3: visualize_data on a dataframe of zero rows fails with the no-data error,
\* whatever vis_types holds, and returns no charts.
InvEmptyFrameNoData ==
    (Called /\ df.nrows = 0) =>
        /\ result.status = "raise"
        /\ result.error = EmptyDataFrame
        /\ result.charts = <<>>

\* C3 witness: a zero-row dataframe with columns, asked for a valid kind among
\* several entries, fails with the no-data error.
WitEmptyFrameNoData ==
    /\ Called
    /\ df.nrows = 0
    /\ Len(df.cols) >= 1
    /\ Len(vis_types) >= 2
    /\ ValidIdx # {}
    /\ result.error = EmptyDataFrame

\* C4 as stated: with data and no entry of vis_types in the taxonomy, the call
\* fails, before any column classification.
InvNoValidKindFails ==
    (Called /\ HasData /\ ValidIdx = {}) =>
        /\ result.status = "raise"
        /\ result.classified = 0

\* C5: with data and at least one valid kind requested, when no requested valid
\* kind satisfies its selection rule the call fails with the no-plots error
\* instead of returning an empty sequence; so does a request of PIE_CHART alone
\* on a table whose first categorical column has 15 distinct values.
InvNoPlotsRaises ==
    /\ (/\ Called
        /\ HasData
        /\ ValidIdx # {}
        /\ \A i \in ValidIdx : Figure(df, vis_types[i], VisName) = <<>>)
       => (result.status = "raise" /\ result.error = NoPlots)
    /\ (/\ Called
        /\ HasData
        /\ vis_types = <<"PIE_CHART">>
        /\ CategoricalSet # {}
        /\ df.cols[First(CategoricalSet)].groups = 15)
       => (result.status = "raise" /\ result.error = NoPlots)

\* C5 witness: PIE_CHART alone on the category table with 15 categories fails
\* with the no-plots error.
WitNoPlotsRaises ==
    /\ df = CategoryTable(15)
    /\ vis_types = <<"PIE_CHART">>
    /\ raising = {}
    /\ result.status = "raise"
    /\ result.error = NoPlots

\* C6: for a dataframe with data and a categorical column, PIE_CHART (its
\* construction not raising) yields a pie exactly when the first categorical
\* column has 2 to 10 groups: of the sums of the first numerical column when there
\* is one, of the value counts otherwise.
InvPieCardinality ==
    (Called /\ HasData /\ vis_types = <<"PIE_CHART">> /\ raising = {} /\ CategoricalSet # {}) =>
        LET c == First(CategoricalSet)
            g == df.cols[c].groups
        IN  IF g >= 2 /\ g <= 10
            THEN /\ result.status = "return"
                 /\ Len(result.charts) = 1
                 /\ result.charts[1].px = "pie"
                 /\ result.charts[1].x = c
                 /\ IF NumericalSet # {}
                    THEN /\ result.charts[1].data = "grouped_sum"
                         /\ result.charts[1].y = First(NumericalSet)
                    ELSE result.charts[1].data = "value_counts"
            ELSE result.status = "raise" /\ result.charts = <<>>

\* C6 witness: 10 groups, at the upper boundary, summed over a numerical column,
\* make a pie.
WitPieCardinality ==
    /\ Called
    /\ vis_types = <<"PIE_CHART">>
    /\ CategoricalSet # {}
    /\ NumericalSet # {}
    /\ df.cols[First(CategoricalSet)].groups = 10
    /\ result.status = "return"
    /\ result.charts[1].px = "pie"

\* C7 as stated: LINE_CHART (its construction not raising) yields a line chart
\* exactly when the dataframe has a numerical column and a datetime column or a
\* text column holding a value that parses as a date, wherever that text column is.
InvLineChartAnyDateColumn ==
    (Called /\ HasData /\ vis_types = <<"LINE_CHART">> /\ raising = {}) =>
        ((NumericalSet # {} /\ (DatetimeSet # {} \/ ParseableTextSet # {}))
            <=> (/\ result.status = "return"
                 /\ Len(result.charts) = 1
                 /\ result.charts[1].px = "line"))

\* C8 as stated: the 50-row table of a 4-valued text category, a number and an ISO
\* date string, asked for BAR_CHART, LINE_CHART, PIE_CHART, yields the bar of
\* category vs number, the line of parsed date vs number and the pie of the
\* per-category sums.
InvThreeCharts ==
    (/\ Called
     /\ df = CategoryTable(4)
     /\ vis_types = <<"BAR_CHART", "LINE_CHART", "PIE_CHART">>
     /\ raising = {})
    => /\ result.status = "return"
       /\ result.charts = <<Fig("bar", "df", 1, 2, Title(VisName, "BAR_CHART")),
                            Fig("line", "parsed", 3, 2, Title(VisName, "LINE_CHART")),
                            Fig("pie", "grouped_sum", 1, 2, Title(VisName, "PIE_CHART"))>>

\* C9: the kinds are processed independently.  With data and a valid kind
\* requested, the call returns exactly the charts of the valid entries whose rule
\* selects columns and whose construction does not raise, one per entry and in
\* the order of the request, whatever the other entries did; it fails only when
\* no entry yields a chart.
InvBatchIndependent ==
    (Called /\ HasData /\ ValidIdx # {}) =>
        IF KeptIdx = {}
        THEN result.status = "raise"
        ELSE /\ result.status = "return"
             /\ Len(result.charts) = Cardinality(KeptIdx)
             /\ \A j \in 1..Len(result.charts) :
                    result.charts[j] = Figure(df, vis_types[NthKept(j)], VisName)[1]

\* C9 witness: the first kind raises, the second fails its rule, and the third
\* still yields its chart.
WitBatchIndependent ==
    /\ df = CategoryTable(4)
    /\ vis_types = <<"BAR_CHART", "SCATTER_PLOT", "PIE_CHART">>
    /\ raising = {"BAR_CHART"}
    /\ result.status = "return"
    /\ Len(result.charts) = 1
    /\ result.charts[1].px = "pie"

(***************************************************************************)
(* Vocabulary of the claims about the two parsers.                         *)
(***************************************************************************)
\* The kinds a parser returned.
ParsedKinds ==
    IF parsed.fn = "suggest"
    THEN [i \in 1..Len(parsed.value) |-> parsed.value[i].type]
    ELSE parsed.value

\* The reply as the parsers see a kind in it: quotes gone.
Unquoted == remove(remove(llm_reply.content, "'"), "\"")

\* Where kind k first stands in the reply, 0 when it does not.
FirstAt(k) ==
    LET at == {p \in 1..Len(Unquoted) :
                  /\ p + Len(Chars(k)) - 1 <= Len(Unquoted)
                  /\ SubSeq(Unquoted, p, p + Len(Chars(k)) - 1) = Chars(k)}
    IN  IF at = {} THEN 0 ELSE CHOOSE p \in at : \A q \in at : p <= q

ExampleReply ==
    Chars("BAR_CHART") \o <<",">> \o <<" ", "'", "LINE", "_CHART", "'">> \o <<",">>
        \o <<" ", "bogus">> \o <<",">> \o Chars("BAR_CHART")

\* C1 as stated: whichever parser ran on a reply, the kinds it returned are kinds
\* of the taxonomy, no kind is returned twice, and they stand in the order of
\* their first occurrence in the reply; the reply
\* "BAR_CHART, 'LINE_CHART', bogus,BAR_CHART" yields BAR_CHART, LINE_CHART.
InvValidatedKinds ==
    (parsed.fn \in {"suggest", "recognize"} /\ llm_reply.kind = "text") =>
        /\ \A i \in 1..Len(ParsedKinds) : ParsedKinds[i] \in Range(supported_plot_types)
        /\ \A i, j \in 1..Len(ParsedKinds) : i # j => ParsedKinds[i] # ParsedKinds[j]
        /\ \A i, j \in 1..Len(ParsedKinds) :
               i < j => FirstAt(ParsedKinds[i]) < FirstAt(ParsedKinds[j])
        /\ (llm_reply.content = ExampleReply /\ parsed.schema_complete)
               => ParsedKinds = <<"BAR_CHART", "LINE_CHART">>

\* C10 as stated: suggest_visualizations returns at most 4 entries.
InvAtMostFourSuggestions ==
    parsed.fn = "suggest" => Len(parsed.value) <= 4

(***************************************************************************)
(* Claims about the session.                                               *)
(***************************************************************************)
\* C2: after any sequence of requests, a successful ingest leaves the session
\* with the schema and the full dataset of the table it ingested, and with no
\* entry in last_query_results and generated_plotly_figures.
InvIngestReplaces ==
    (http_response.endpoint = "ingest" /\ http_response.status = 200) =>
        /\ Len(database_schemas) = 1
        /\ database_schemas[1].ingest = http_response.ingest
        /\ database_schemas[1].schema.table_name = TableName
        /\ Len(database_schemas[1].schema.columns) = Len(http_response.upload.cols)
        /\ \A i \in 1..Len(http_response.upload.cols) :
               database_schemas[1].schema.columns[i].column_name = i
        /\ full_dataset_dfs = <<[ingest |-> http_response.ingest,
                                 frame |-> http_response.upload]>>
        /\ last_query_results = <<>>
        /\ generated_plotly_figures = <<>>

\* C2 witness: a later ingest succeeds on a session that held a query result
\* and the data of an earlier ingest.
WitIngestReplaces ==
    /\ http_response.endpoint = "ingest"
    /\ http_response.status = 200
    /\ http_response.ingest >= 2
    /\ http_response.prior_query
    /\ last_query_results = <<>>
    /\ full_dataset_dfs[1].ingest = http_response.ingest

\* The kinds recognized in the fragments the text generator answered, the
\* fragments whose call failed skipped.
RECURSIVE AnsweredKinds(_)
AnsweredKinds(replies) ==
    IF replies = <<>>
    THEN <<>>
    ELSE (IF Head(replies).kind = "text"
          THEN recognize_visualization_request(Head(replies))
          ELSE <<>>) \o AnsweredKinds(Tail(replies))

FailureKinds == {"error", "connection", "null"}

\* C11: a failure of the text generator, of any kind, leaves neither parser as
\* an exception: an ingest that fails nowhere else succeeds with no suggestion,
\* and a visualize request goes on with the kinds of the fragments that were
\* answered, whichever fragments failed.
InvParsersNeverRaise ==
    /\ (/\ http_response.endpoint = "ingest"
        /\ http_response.fault = "none"
        /\ http_response.suggest_reply \in FailureKinds)
           => /\ http_response.status = 200
              /\ http_response.initial_suggestions = <<>>
    /\ (http_response.endpoint = "visualize" /\ http_response.replies # <<>>)
           => /\ http_response.kinds = AnsweredKinds(http_response.replies)
              /\ http_response.status = 500 => http_response.kinds # <<>>

\* C11 witness: the first fragment's call fails for want of a connection, the
\* second is answered, and the request ends with charts.
WitParsersNeverRaise ==
    /\ http_response.endpoint = "visualize"
    /\ Len(http_response.replies) >= 2
    /\ http_response.replies[1].kind = "connection"
    /\ http_response.replies[2].kind = "text"
    /\ http_response.status = 200
    /\ http_response.kinds = <<"BAR_CHART", "PIE_CHART">>
    /\ http_response.plots # <<>>

\* The text generator gave llm_to_sql nothing to run: its call failed, or its
\* answer is empty once stripped.
NothingToRun(reply) ==
    \/ reply.kind \in FailureKinds
    \/ reply.kind = "text" /\ strip(reply.content) = <<>>

\* C12: a query request whose text generation fails, or answers with nothing
\* but blanks, fails with the same response in both cases, calls conn.execute
\* not once, and leaves last_query_results as it was.
ActNoSqlNoExecution ==
    [][(http_response'.endpoint = "query" /\ NothingToRun(http_response'.reply))
          => /\ http_response'.status = 500
             /\ http_response'.detail = NoSqlGenerated
             /\ http_response'.executed = 0
             /\ last_query_results' = last_query_results]_vars

\* C12 witness: the answer is a blank, on a session that holds the result of
\* an earlier query, and the request has failed without an execution.
WitNoSqlNoExecution ==
    /\ http_response.endpoint = "query"
    /\ http_response.reply = Answer(<<" ">>)
    /\ http_response.status = 500
    /\ http_response.executed = 0
    /\ last_query_results # <<>>

\* The charts visualize_data makes of the full dataset of the session for the
\* kinds of the response, with px.bar raising or not.
ChartsOfFullDataset ==
    {visualize_data(full_dataset_dfs[1].frame, http_response.kinds,
                    database_schemas[1].schema.table_name, raises).charts :
        raises \in {{}, {"BAR_CHART"}}}

\* C13: the charts of a visualize request are those of the full dataset of
\* the session, whatever last_query_results holds, and no query request
\* changes the full dataset.
PropVisualizeFullDataset ==
    /\ []((http_response.endpoint = "visualize" /\ http_response.status = 200)
             => http_response.plots \in ChartsOfFullDataset)
    /\ [][http_response'.endpoint = "query" => full_dataset_dfs' = full_dataset_dfs]_vars

\* C13 witness: charts are returned on a session whose last query result is
\* another table than its full dataset.
WitVisualizeFullDataset ==
    /\ http_response.endpoint = "visualize"
    /\ http_response.status = 200
    /\ http_response.plots # <<>>
    /\ last_query_results # <<>>
    /\ last_query_results[1] # full_dataset_dfs[1].frame

\* C14 as stated: at most one connection made by an ingest is open, the one
\* the session holds.
InvOldConnectionReleased ==
    /\ Cardinality(open_connections) <= 1
    /\ open_connections \subseteq Range(database_connections)

\* The table name and, in schema order, the name and the type of every column
\* of a schema of get_schema.
SchemaListing(schema) ==
    [table |-> schema.table_name,
     columns |-> [i \in 1..Len(schema.columns) |->
                     <<schema.columns[i].column_name, schema.columns[i].data_type>>]]

\* C15 as stated: the prompt of llm_to_sql lists the table name and every
\* column of the session's schema, with its type, in schema order.
InvSqlPromptListsSchema ==
    (http_response.endpoint = "query" /\ http_response.reply # NoReply)
        => http_response.schema_string = SchemaListing(database_schemas[1].schema)

\* C16 as stated: when the execution of the generated query fails with a parse
\* error or an execution error, the failure response holds the text of the
\* query, and conn.execute was called once, for one answer of the text generator.
InvQueryFailureCarriesSql ==
    (/\ http_response.endpoint = "query"
     /\ http_response.detail.exception.class \in {"parser_error", "duckdb_error"})
        => /\ http_response.status \in {400, 500}
           /\ http_response.executed = 1
           /\ \/ http_response.sql_query = <<strip(http_response.reply.content)>>
              \/ http_response.detail.exception.statement
                     = <<strip(http_response.reply.content)>>

\* Connection, schema and full dataset are all absent, or all of one ingest.
SessionOfOneIngest ==
    \/ database_connections = <<>> /\ database_schemas = <<>> /\ full_dataset_dfs = <<>>
    \/ /\ database_connections # <<>>
       /\ database_schemas # <<>>
       /\ full_dataset_dfs # <<>>
       /\ database_schemas[1].ingest = database_connections[1]
       /\ full_dataset_dfs[1].ingest = database_connections[1]

\* C17 as stated: in every reachable state the session is of one ingest, and
\* an ingest request that answers with a failure leaves connection, schema,
\* full dataset and last query result as they were.
PropSessionOfOneIngest ==
    /\ []SessionOfOneIngest
    /\ [][(http_response'.endpoint = "ingest" /\ http_response'.status # 200)
             => UNCHANGED <<database_connections, database_schemas,
                            full_dataset_dfs, last_query_results>>]_vars

====
